---------------------------- MODULE Spec2Model ----------------------------
(***************************************************************************)
(* Model of pulp_rpm/common/models.py: the content-unit value classes      *)
(* (Distribution, DRPM, RPM, Errata, PackageGroup, PackageCategory), the   *)
(* type registry TYPE_MAP and from_typed_unit_key_tuple.                   *)
(*                                                                         *)
(* Python strings are sequences of one-character strings, so that joins,   *)
(* path splitting, version encoding and string comparison are computed     *)
(* character by character.  Python dicts are functions whose domain is a   *)
(* set of field names.  A call that raises is an outcome record whose      *)
(* status names the exception.                                             *)
(***************************************************************************)
EXTENDS Integers, Sequences, FiniteSets, TLC

VARIABLES unit, given, passed, snapshot, result, pkgs

vars == <<unit, given, passed, snapshot, result, pkgs>>

(***************************************************************************)
(* Bounds                                                                  *)
(***************************************************************************)
\* longest report list handed to one process_download_reports call
MaxReports == 2
\* cap on the number of reports handed to one Distribution over all calls
MaxFiles == 3

(***************************************************************************)
(* Strings                                                                 *)
(***************************************************************************)
\* the characters in use, in ascending byte order (str comparison in
\* Python 2 is by byte value; only the relative order matters)
Alphabet ==
    <<"$", "-", ".", "/", "0", "1", "2", "3", "4", "5", "6", "7", "8", "9",
      "_", "a", "b", "c", "d", "e", "f", "g", "h", "i", "j", "k", "l", "m",
      "n", "o", "p", "q", "r", "s", "t", "u", "v", "w", "x", "y", "z">>

Ord(c) == CHOOSE i \in 1..Len(Alphabet) : Alphabet[i] = c

Digits == {"0", "1", "2", "3", "4", "5", "6", "7", "8", "9"}

Letters == {Alphabet[i] : i \in 16..Len(Alphabet)}

Sign(n) == IF n < 0 THEN -1 ELSE IF n > 0 THEN 1 ELSE 0

NegOf(n) == 0 - n

\* cmp() of two str values: first differing character, then length
RECURSIVE CmpStr(_, _)
CmpStr(s, t) ==
    IF s = <<>> /\ t = <<>> THEN 0
    ELSE IF s = <<>> THEN -1
    ELSE IF t = <<>> THEN 1
    ELSE IF Head(s) # Head(t) THEN Sign(Ord(Head(s)) - Ord(Head(t)))
    ELSE CmpStr(Tail(s), Tail(t))

\* cmp() of two tuples of str: first differing element, then length
RECURSIVE CmpTuple(_, _)
CmpTuple(x, y) ==
    IF x = <<>> /\ y = <<>> THEN 0
    ELSE IF x = <<>> THEN -1
    ELSE IF y = <<>> THEN 1
    ELSE IF CmpStr(Head(x), Head(y)) # 0 THEN CmpStr(Head(x), Head(y))
    ELSE CmpTuple(Tail(x), Tail(y))

\* sep.join(parts)
RECURSIVE Join(_, _)
Join(sep, parts) ==
    IF parts = <<>> THEN <<>>
    ELSE IF Len(parts) = 1 THEN parts[1]
    ELSE parts[1] \o sep \o Join(sep, Tail(parts))

\* index of the last "/" of p, 0 when there is none
LastSlash(p) ==
    IF \E i \in 1..Len(p) : p[i] = "/"
    THEN CHOOSE i \in 1..Len(p) :
            p[i] = "/" /\ \A j \in (i + 1)..Len(p) : p[j] # "/"
    ELSE 0

\* os.path.basename
Basename(p) == SubSeq(p, LastSlash(p) + 1, Len(p))

RECURSIVE RStripSlash(_)
RStripSlash(h) ==
    IF h # <<>> /\ h[Len(h)] = "/" THEN RStripSlash(SubSeq(h, 1, Len(h) - 1))
    ELSE h

\* os.path.dirname: the head up to the last "/", trailing slashes removed
\* unless the head is all slashes
Dirname(p) ==
    LET head == SubSeq(p, 1, LastSlash(p))
    IN  IF head # <<>> /\ RStripSlash(head) # <<>> THEN RStripSlash(head)
        ELSE head

\* os.path.join(a, *p)
RECURSIVE PathJoin(_, _)
PathJoin(a, p) ==
    IF p = <<>> THEN a
    ELSE LET b == Head(p)
             path == IF b # <<>> /\ b[1] = "/" THEN b
                     ELSE IF a = <<>> \/ a[Len(a)] = "/" THEN a \o b
                     ELSE a \o <<"/">> \o b
         IN  PathJoin(path, Tail(p))

(***************************************************************************)
(* Dicts and outcomes                                                      *)
(***************************************************************************)
EmptyDict == [k \in {} |-> <<>>]

\* d[k] = v
DictSet(d, k, v) == [x \in DOMAIN d \cup {k} |-> IF x = k THEN v ELSE d[x]]

\* d restricted to the names in ks
Restrict(d, ks) == [x \in DOMAIN d \cap ks |-> d[x]]

\* the set of elements of a tuple
Range(s) == {s[i] : i \in 1..Len(s)}

NoUnit == [cls |-> "none"]

Ok(u) == [status |-> "ok", value |-> u]

Raise(exc) == [status |-> exc, value |-> NoUnit]

(***************************************************************************)
(* Classes                                                                 *)
(***************************************************************************)
Classes ==
    {"Distribution", "DRPM", "RPM", "Errata", "PackageGroup", "PackageCategory"}

UNIT_KEY_NAMES ==
    [Distribution    |-> <<"id", "family", "variant", "version", "arch">>,
     DRPM            |-> <<"epoch", "version", "release", "filename",
                           "checksumtype", "checksum">>,
     RPM             |-> <<"name", "epoch", "version", "release", "arch",
                           "checksumtype", "checksum">>,
     Errata          |-> <<"id">>,
     PackageGroup    |-> <<"id", "repo_id">>,
     PackageCategory |-> <<"id", "repo_id">>]

TYPE ==
    [Distribution    |-> <<"d", "i", "s", "t", "r", "i", "b", "u", "t", "i", "o", "n">>,
     DRPM            |-> <<"d", "r", "p", "m">>,
     RPM             |-> <<"r", "p", "m">>,
     Errata          |-> <<"e", "r", "r", "a", "t", "u", "m">>,
     PackageGroup    |-> <<"p", "a", "c", "k", "a", "g", "e", "_", "g", "r", "o", "u", "p">>,
     PackageCategory |-> <<"p", "a", "c", "k", "a", "g", "e", "_", "c", "a", "t", "e", "g", "o", "r", "y">>]

\* the parameters of each class's __init__ besides self; none has a default
InitParams ==
    [Distribution    |-> {"family", "variant", "version", "arch"},
     DRPM            |-> {"epoch", "version", "release", "filename",
                          "checksumtype", "checksum", "metadata"},
     RPM             |-> {"name", "epoch", "version", "release", "arch",
                          "checksumtype", "checksum", "metadata"},
     Errata          |-> {"id", "metadata"},
     PackageGroup    |-> {"id", "repo_id", "metadata"},
     PackageCategory |-> {"id", "repo_id", "metadata"}]

\* Package.__init__: copy the key fields out of local_vars, keep the
\* metadata mapping found there (or a new empty one)
Package__init__(cls, local_vars) ==
    IF \E i \in 1..Len(UNIT_KEY_NAMES[cls]) :
            UNIT_KEY_NAMES[cls][i] \notin DOMAIN local_vars
    THEN Raise("KeyError")
    ELSE Ok([cls      |-> cls,
             attrs    |-> [n \in Range(UNIT_KEY_NAMES[cls]) |-> local_vars[n]],
             metadata |-> IF "metadata" \in DOMAIN local_vars
                          THEN local_vars["metadata"] ELSE EmptyDict])

\* an id joined without the "ks" prefix
Distribution__init__noPrefix(kwargs) ==
    Package__init__("Distribution",
        DictSet(kwargs, "id",
                Join(<<"-">>, <<kwargs["family"], kwargs["variant"],
                                kwargs["version"], kwargs["arch"]>>)))

\* Distribution.__init__: derive id, then Package.__init__ on the locals
Distribution__init__(kwargs) ==
    Package__init__("Distribution",
        DictSet(kwargs, "id",
                Join(<<"-">>, <<<<"k", "s">>, kwargs["family"], kwargs["variant"],
                                kwargs["version"], kwargs["arch"]>>)))

\* cls(**kwargs): the keywords must be exactly the parameters of __init__
New(cls, kwargs) ==
    IF DOMAIN kwargs # InitParams[cls] THEN Raise("TypeError")
    ELSE IF cls = "Distribution" THEN Distribution__init__(kwargs)
    ELSE Package__init__(cls, kwargs)

\* Package.unit_key: a new dict holding each key field
unit_key(u) == [n \in Range(UNIT_KEY_NAMES[u.cls]) |-> u.attrs[n]]

\* Package.unit_key_as_typed_tuple: TYPE, then the key fields in order
unit_key_as_typed_tuple(u) ==
    <<TYPE[u.cls]>> \o
        [i \in 1..Len(UNIT_KEY_NAMES[u.cls]) |-> u.attrs[UNIT_KEY_NAMES[u.cls][i]]]

\* the key names package_info.iteritems() routes to the constructor
RoutedKeys(cls, package_info) == DOMAIN package_info \cap Range(UNIT_KEY_NAMES[cls])

\* routing that also copies the key fields into metadata
RoutedMetadata_keepKeys(cls, package_info) ==
    {k \in DOMAIN package_info : ~(k = "type" /\ cls # "Errata")}

\* routing that drops "type" for every class, Errata included
RoutedMetadata_dropAll(cls, package_info) ==
    {k \in DOMAIN package_info :
        k \notin Range(UNIT_KEY_NAMES[cls]) /\ k # "type"}

\* the names package_info.iteritems() routes to metadata: everything that
\* is not a key field, minus "type" unless cls is Errata
RoutedMetadata(cls, package_info) ==
    {k \in DOMAIN package_info :
        /\ k \notin Range(UNIT_KEY_NAMES[cls])
        /\ ~(k = "type" /\ cls # "Errata")}

\* Package.from_package_info
from_package_info(cls, package_info) ==
    LET metadata == Restrict(package_info, RoutedMetadata(cls, package_info))
        kw == DictSet(Restrict(package_info, RoutedKeys(cls, package_info)),
                      "metadata", metadata)
    IN  New(cls, kw)


(***************************************************************************)
(* version_utils.encode                                                    *)
(***************************************************************************)
DigitChars == <<"0", "1", "2", "3", "4", "5", "6", "7", "8", "9">>

\* "%02d" % n
TwoDigits(n) == <<DigitChars[(n \div 10) + 1], DigitChars[(n % 10) + 1]>>

\* the maximal digit runs and letter runs of s, in order; any other
\* character only separates runs
RECURSIVE Runs(_, _, _)
Runs(s, cur, acc) ==
    LET flush == IF cur = <<>> THEN acc ELSE Append(acc, cur)
    IN  IF s = <<>> THEN flush
        ELSE LET c == Head(s)
             IN  IF c \notin Digits \cup Letters THEN Runs(Tail(s), <<>>, flush)
                 ELSE IF cur # <<>> /\ ((cur[1] \in Digits) # (c \in Digits))
                 THEN Runs(Tail(s), <<c>>, flush)
                 ELSE Runs(Tail(s), Append(cur, c), acc)

RECURSIVE LStripZeros(_)
LStripZeros(seg) ==
    IF Len(seg) > 1 /\ seg[1] = "0" THEN LStripZeros(Tail(seg)) ELSE seg

\* a digit run becomes "<two-digit length>-<digits without leading zeros>",
\* a letter run becomes "$<letters>"
EncodeSegment(seg) ==
    IF seg[1] \in Digits
    THEN TwoDigits(Len(LStripZeros(seg))) \o <<"-">> \o LStripZeros(seg)
    ELSE <<"$">> \o seg

\* version_utils.encode: the encoded runs joined by "."
encode(field) ==
    LET segs == Runs(field, <<>>, <<>>)
    IN  Join(<<".">>, [i \in 1..Len(segs) |-> EncodeSegment(segs[i])])

(***************************************************************************)
(* VersionedPackage                                                        *)
(***************************************************************************)
\* an exclusion list without the checksum
VersionFields_noChecksum == {"epoch", "version", "release", "checksumtype"}

VersionFields == {"epoch", "version", "release", "checksum", "checksumtype"}

IsNotVersionField(k) == k \notin VersionFields

\* the values of the tuple of names ks, read off the unit
ValuesOf(u, ks) == [i \in 1..Len(ks) |-> u.attrs[ks[i]]]

\* VersionedPackage.key_string_without_version
key_string_without_version(u) ==
    Join(<<"-">>,
         Append(ValuesOf(u, SelectSeq(UNIT_KEY_NAMES[u.cls], IsNotVersionField)),
                TYPE[u.cls]))

IsKeyNameOf(cls) == [k \in {"epoch", "version", "release"} |->
                        k \in Range(UNIT_KEY_NAMES[cls])]

\* the version read before the epoch
complete_version_versionFirst(u) ==
    <<u.attrs["version"], u.attrs["epoch"], u.attrs["release"]>>

\* VersionedPackage.complete_version
complete_version(u) ==
    LET Present(k) == IsKeyNameOf(u.cls)[k]
    IN  ValuesOf(u, SelectSeq(<<"epoch", "version", "release">>, Present))

\* VersionedPackage.complete_version_serialized
complete_version_serialized(u) ==
    [i \in 1..Len(complete_version(u)) |-> encode(complete_version(u)[i])]

\* VersionedPackage.__cmp__
VersionedPackage__cmp__(self, other) ==
    CmpTuple(complete_version_serialized(self), complete_version_serialized(other))

(***************************************************************************)
(* Distribution                                                            *)
(***************************************************************************)
\* constants.DISTRIBUTION_STORAGE_PATH
DISTRIBUTION_STORAGE_PATH ==
    <<"/", "v", "a", "r", "/", "l", "i", "b", "/", "p", "u", "l", "p", "/",
      "c", "o", "n", "t", "e", "n", "t", "/",
      "d", "i", "s", "t", "r", "i", "b", "u", "t", "i", "o", "n", "/">>

\* Distribution.relative_path
relative_path(u) == u.attrs["id"]

\* the dict process_download_reports appends for one report
FileEntry(u, report) ==
    [checksum     |-> report.data.checksum,
     checksumtype |-> report.data.checksumtype,
     downloadurl  |-> report.url,
     filename     |-> Basename(report.data.relativepath),
     fileName     |-> Basename(report.data.relativepath),
     item_type    |-> TYPE[u.cls],
     pkgpath      |-> PathJoin(DISTRIBUTION_STORAGE_PATH,
                               <<u.attrs["id"], Dirname(report.data.relativepath)>>),
     relativepath |-> report.data.relativepath,
     savepath     |-> report.destination,
     size         |-> report.total_bytes]

\* a files list rebuilt on every call instead of extended
process_download_reports_overwrite(u, reports) ==
    [u EXCEPT !.metadata =
        DictSet(u.metadata, "files",
                [i \in 1..Len(reports) |-> FileEntry(u, reports[i])])]

\* Distribution.process_download_reports: metadata.setdefault('files', [])
\* and one append per report
process_download_reports(u, reports) ==
    LET old == IF "files" \in DOMAIN u.metadata THEN u.metadata["files"] ELSE <<>>
        new == old \o [i \in 1..Len(reports) |-> FileEntry(u, reports[i])]
    IN  [u EXCEPT !.metadata = DictSet(u.metadata, "files", new)]

(***************************************************************************)
(* Type registry                                                           *)
(***************************************************************************)
\* a registry without the RPM entry
TYPE_MAP_items_noRPM ==
    <<<<TYPE.Distribution, "Distribution">>,
      <<TYPE.DRPM, "DRPM">>,
      <<TYPE.Errata, "Errata">>,
      <<TYPE.PackageCategory, "PackageCategory">>,
      <<TYPE.PackageGroup, "PackageGroup">>>>

\* the items of the TYPE_MAP dict literal
TYPE_MAP_items ==
    <<<<TYPE.Distribution, "Distribution">>,
      <<TYPE.DRPM, "DRPM">>,
      <<TYPE.Errata, "Errata">>,
      <<TYPE.PackageCategory, "PackageCategory">>,
      <<TYPE.PackageGroup, "PackageGroup">>,
      <<TYPE.RPM, "RPM">>>>

\* the dict built from a tuple of (key, value) items; a later item wins
DictOf(items) ==
    [k \in {items[i][1] : i \in 1..Len(items)} |->
        items[CHOOSE i \in 1..Len(items) :
                 /\ items[i][1] = k
                 /\ \A j \in (i + 1)..Len(items) : items[j][1] # k][2]]

TYPE_MAP == DictOf(TYPE_MAP_items)

\* the call package_class.from_package_info(*args, **kwargs) against the
\* signature from_package_info(cls, package_info)
Call_from_package_info(cls, args, kwargs) ==
    IF ~(DOMAIN kwargs \subseteq {"package_info"}) THEN Raise("TypeError")
    ELSE IF Len(args) + Cardinality(DOMAIN kwargs) # 1 THEN Raise("TypeError")
    ELSE from_package_info(cls, IF args # <<>> THEN args[1]
                                ELSE kwargs["package_info"])

\* from_typed_unit_key_tuple
from_typed_unit_key_tuple(typed_tuple) ==
    IF typed_tuple = <<>> THEN Raise("IndexError")
    ELSE IF typed_tuple[1] \notin DOMAIN TYPE_MAP THEN Raise("KeyError")
    ELSE Call_from_package_info(TYPE_MAP[typed_tuple[1]], Tail(typed_tuple),
                                [metadata |-> EmptyDict])

(***************************************************************************)
(* Inputs                                                                  *)
(***************************************************************************)
Names == {<<"b", "a", "s", "h">>, <<"z", "s", "h">>}

Epochs == {<<"0">>, <<"1">>}

Versions == {<<"1", ".", "2">>, <<"1", ".", "1", "0">>}

Releases == {<<"1">>, <<"2">>}

Arches == {<<"x", "8", "6", "_", "6", "4">>}

ChecksumTypes == {<<"s", "h", "a", "2", "5", "6">>}

Checksums == {<<"a", "b", "c">>, <<"d", "e", "f">>}

Filenames == {<<"a", ".", "d", "r", "p", "m">>}

Ids == {<<"r", "h", "s", "a">>, <<"w", "e", "b">>}

RepoIds == {<<"r", "e", "p", "o">>}

Families == {<<"f", "2", "0">>, <<"e", "l">>}

Variants == {<<"s", "e", "r", "v", "e", "r">>}

\* the values each field name may be given
FieldInputs ==
    [name |-> Names, epoch |-> Epochs, version |-> Versions, release |-> Releases,
     arch |-> Arches, checksumtype |-> ChecksumTypes, checksum |-> Checksums,
     filename |-> Filenames, id |-> Ids, repo_id |-> RepoIds,
     family |-> Families, variant |-> Variants]

\* the metadata mappings handed to a constructor: empty, a field that is
\* not a key field, and one under the name of the class's first key field
MetadataInputs(cls) ==
    {EmptyDict,
     [k \in {"summary"} |-> <<"s", "h", "e", "l", "l">>],
     [k \in {UNIT_KEY_NAMES[cls][1]} |-> <<"z">>]}

\* the entries a package_info mapping may carry besides key fields
ExtraInputs ==
    {Restrict([type |-> <<"s", "e", "c">>, summary |-> <<"s", "h", "e", "l", "l">>], d) :
        d \in SUBSET {"type", "summary"}}

\* every assignment of input values to the names in ks
RECURSIVE Assignments(_)
Assignments(ks) ==
    IF ks = {} THEN {EmptyDict}
    ELSE LET k == CHOOSE x \in ks : TRUE
         IN  {DictSet(f, k, v) : f \in Assignments(ks \ {k}), v \in FieldInputs[k]}

\* two dicts with disjoint key sets, merged
Merge(d, e) == [k \in DOMAIN d \cup DOMAIN e |-> IF k \in DOMAIN d THEN d[k] ELSE e[k]]

\* the package_info mappings handed to cls.from_package_info: all key
\* fields, or all but the last one, with any of the extra entries
PackageInfos(cls) ==
    LET all  == Range(UNIT_KEY_NAMES[cls])
        last == UNIT_KEY_NAMES[cls][Len(UNIT_KEY_NAMES[cls])]
    IN  {Merge(f, e) : f \in Assignments(all) \cup Assignments(all \ {last}),
                       e \in ExtraInputs}

Reports ==
    {[data        |-> [checksum     |-> <<"a", "b", "c">>,
                       checksumtype |-> <<"s", "h", "a", "2", "5", "6">>,
                       relativepath |-> <<"i", "m", "g", "/", "b", "o", "o", "t">>],
      url         |-> <<"h", "/", "i", "m", "g", "/", "b", "o", "o", "t">>,
      destination |-> <<"/", "t", "/", "b", "o", "o", "t">>,
      total_bytes |-> 7],
     [data        |-> [checksum     |-> <<"d", "e", "f">>,
                       checksumtype |-> <<"s", "h", "a", "2", "5", "6">>,
                       relativepath |-> <<"t", "r", "e", "e">>],
      url         |-> <<"h", "/", "t", "r", "e", "e">>,
      destination |-> <<"/", "t", "/", "t", "r", "e", "e">>,
      total_bytes |-> 0]}

ReportLists == UNION {[1..n -> Reports] : n \in 0..MaxReports}

\* typed tuples that are not the typed tuple of a unit: empty, an
\* unregistered tag, the tag of the abstract base, a bare registered tag
OtherTuples ==
    {<<>>,
     <<<<"s", "r", "p", "m">>, <<"b", "a", "s", "h">>>>,
     <<<<"r", "p", "m", "s">>>>,
     <<TYPE.Errata>>}

\* the names AlterSnapshot stores under
AlterKeys(cls) == {UNIT_KEY_NAMES[cls][1], "extra"}

(***************************************************************************)
(* State machine: one unit under construction and use                      *)
(***************************************************************************)
NoSnapshot == [obj |-> "none", value |-> EmptyDict]

NoGiven == [by |-> "none", cls |-> "none", args |-> EmptyDict]

NoResult == [op |-> "none", arg |-> <<>>, status |-> "ok", value |-> NoUnit]

Init ==
    /\ unit = NoUnit
    /\ given = NoGiven
    /\ passed = <<>>
    /\ snapshot = NoSnapshot
    /\ result = NoResult
    /\ pkgs = <<>>

\* u = cls(**kwargs); the model follows one unit from its construction
Construct(cls, kwargs) ==
    LET r == New(cls, kwargs)
    IN  /\ unit = NoUnit
        /\ unit' = r.value
        /\ given' = [by |-> "new", cls |-> cls, args |-> kwargs]
        /\ passed' = <<>>
        /\ snapshot' = NoSnapshot
        /\ result' = [op |-> "new", arg |-> kwargs, status |-> r.status,
                      value |-> r.value]
        /\ UNCHANGED pkgs

NewDistribution ==
    \E kw \in Assignments(InitParams.Distribution) : Construct("Distribution", kw)

NewDRPM ==
    \E kw \in Assignments(InitParams.DRPM \ {"metadata"}),
       md \in MetadataInputs("DRPM") :
        Construct("DRPM", DictSet(kw, "metadata", md))

NewRPM ==
    \E kw \in Assignments(InitParams.RPM \ {"metadata"}),
       md \in MetadataInputs("RPM") :
        Construct("RPM", DictSet(kw, "metadata", md))

NewErrata ==
    \E kw \in Assignments(InitParams.Errata \ {"metadata"}),
       md \in MetadataInputs("Errata") :
        Construct("Errata", DictSet(kw, "metadata", md))

NewPackageGroup ==
    \E kw \in Assignments(InitParams.PackageGroup \ {"metadata"}),
       md \in MetadataInputs("PackageGroup") :
        Construct("PackageGroup", DictSet(kw, "metadata", md))

NewPackageCategory ==
    \E kw \in Assignments(InitParams.PackageCategory \ {"metadata"}),
       md \in MetadataInputs("PackageCategory") :
        Construct("PackageCategory", DictSet(kw, "metadata", md))

\* u = cls.from_package_info(package_info)
FromPackageInfo ==
    \E cls \in Classes :
        \E package_info \in PackageInfos(cls) :
            LET r == from_package_info(cls, package_info)
            IN  /\ unit = NoUnit
                /\ unit' = r.value
                /\ given' = [by |-> "from_package_info", cls |-> cls,
                             args |-> package_info]
                /\ passed' = <<>>
                /\ snapshot' = NoSnapshot
                /\ result' = [op |-> "from_package_info",
                              arg |-> [cls |-> cls, package_info |-> package_info],
                              status |-> r.status, value |-> r.value]
                /\ UNCHANGED pkgs

\* from_typed_unit_key_tuple(t), t the typed tuple of the unit or another one
FromTypedUnitKeyTuple ==
    \E t \in (IF unit = NoUnit THEN {} ELSE {unit_key_as_typed_tuple(unit)})
                \cup OtherTuples :
        LET r == from_typed_unit_key_tuple(t)
        IN  /\ result' = [op |-> "from_typed_unit_key_tuple", arg |-> t,
                          status |-> r.status, value |-> r.value]
            /\ UNCHANGED <<unit, given, passed, snapshot, pkgs>>

\* u.process_download_reports(reports), u a Distribution
ProcessDownloadReports ==
    /\ unit.cls = "Distribution"
    /\ \E reports \in ReportLists :
        /\ Len(passed) + Len(reports) <= MaxFiles
        /\ unit' = process_download_reports(unit, reports)
        /\ passed' = passed \o reports
        /\ result' = [op |-> "process_download_reports", arg |-> reports,
                      status |-> "ok", value |-> NoUnit]
        /\ UNCHANGED <<given, snapshot, pkgs>>

\* a unit_key that hands out the unit's own attribute dict
UnitKey_alias ==
    /\ unit # NoUnit
    /\ snapshot' = [obj |-> "self", value |-> unit.attrs]
    /\ result' = [op |-> "unit_key", arg |-> <<>>, status |-> "ok",
                  value |-> NoUnit]
    /\ UNCHANGED <<unit, given, passed, pkgs>>

\* k = u.unit_key: the caller holds the dict object the property built
UnitKey ==
    /\ unit # NoUnit
    /\ snapshot' = [obj |-> "key", value |-> unit_key(unit)]
    /\ result' = [op |-> "unit_key", arg |-> <<>>, status |-> "ok",
                  value |-> NoUnit]
    /\ UNCHANGED <<unit, given, passed, pkgs>>

\* k[name] = v on the dict the caller holds; a store through a reference
\* to the unit's own attribute dict would write the unit
AlterSnapshot ==
    /\ snapshot # NoSnapshot
    /\ \E name \in AlterKeys(unit.cls) :
        /\ snapshot' = [snapshot EXCEPT !.value = DictSet(@, name, <<"z">>)]
        /\ unit' = IF snapshot.obj = "self"
                   THEN [unit EXCEPT !.attrs = DictSet(@, name, <<"z">>)]
                   ELSE unit
        /\ result' = [op |-> "alter", arg |-> name, status |-> "ok",
                      value |-> NoUnit]
        /\ UNCHANGED <<given, passed, pkgs>>

Next ==
    \/ NewDistribution
    \/ NewDRPM
    \/ NewRPM
    \/ NewErrata
    \/ NewPackageGroup
    \/ NewPackageCategory
    \/ FromPackageInfo
    \/ FromTypedUnitKeyTuple
    \/ ProcessDownloadReports
    \/ UnitKey
    \/ AlterSnapshot

Spec == Init /\ [][Next]_vars

(***************************************************************************)
(* State machine: comparing and grouping versioned units                   *)
(***************************************************************************)
Slots == {1, 2, 3}

\* (epoch, version, release) inputs: each field above and below another
\* one, and a version that differs from "1.2" by a leading zero only
CompleteVersionInputs ==
    {<<<<"0">>, <<"1", ".", "2">>, <<"1">>>>,
     <<<<"0">>, <<"1", ".", "1", "0">>, <<"1">>>>,
     <<<<"1">>, <<"1", ".", "2">>, <<"1">>>>,
     <<<<"0">>, <<"1", ".", "2">>, <<"2">>>>,
     <<<<"0">>, <<"0", "1", ".", "2">>, <<"1">>>>}

\* the other constructor arguments of the versioned units compared
RestInputs ==
    {[cls |-> "RPM",
      kw  |-> [name |-> <<"b", "a", "s", "h">>, arch |-> <<"x", "8", "6", "_", "6", "4">>,
               checksumtype |-> <<"s", "h", "a", "2", "5", "6">>,
               checksum |-> <<"a", "b", "c">>, metadata |-> EmptyDict]],
     [cls |-> "RPM",
      kw  |-> [name |-> <<"z", "s", "h">>, arch |-> <<"a", "r", "m">>,
               checksumtype |-> <<"m", "d", "5">>,
               checksum |-> <<"d", "e", "f">>,
               metadata |-> [k \in {"summary"} |-> <<"s", "h", "e", "l", "l">>]]],
     [cls |-> "DRPM",
      kw  |-> [filename |-> <<"a", ".", "d", "r", "p", "m">>,
               checksumtype |-> <<"s", "h", "a", "2", "5", "6">>,
               checksum |-> <<"a", "b", "c">>, metadata |-> EmptyDict]]}

VersionedInputs ==
    {New(r.cls, Merge(r.kw, [epoch |-> cv[1], version |-> cv[2],
                             release |-> cv[3]])).value :
        r \in RestInputs, cv \in CompleteVersionInputs}

InitVersioned ==
    /\ unit = NoUnit
    /\ given = NoGiven
    /\ passed = <<>>
    /\ snapshot = NoSnapshot
    /\ result = NoResult
    /\ pkgs \in [Slots -> VersionedInputs]

\* cmp(pkgs[i], pkgs[j])
Cmp ==
    \E i \in Slots, j \in Slots :
        /\ result' = [op |-> "cmp", arg |-> <<i, j>>, status |-> "ok",
                      value |-> VersionedPackage__cmp__(pkgs[i], pkgs[j])]
        /\ UNCHANGED <<unit, given, passed, snapshot, pkgs>>

\* pkgs[i].key_string_without_version
KeyStringWithoutVersion ==
    \E i \in Slots :
        /\ result' = [op |-> "key_string_without_version", arg |-> i,
                      status |-> "ok",
                      value |-> key_string_without_version(pkgs[i])]
        /\ UNCHANGED <<unit, given, passed, snapshot, pkgs>>

NextVersioned ==
    \/ Cmp
    \/ KeyStringWithoutVersion

SpecVersioned == InitVersioned /\ [][NextVersioned]_vars

(***************************************************************************)
(* Properties                                                              *)
(***************************************************************************)
KeyNames(cls) == Range(UNIT_KEY_NAMES[cls])

\* the metadata mapping the caller handed to the constructor, if any
CallerMetadata ==
    IF "metadata" \in DOMAIN given.args THEN given.args["metadata"] ELSE EmptyDict

\* C1: from_typed_unit_key_tuple applied to the typed tuple of a unit
\* returns a unit of the same class whose key fields are the tuple's
\* elements after the tag, in declared order, with empty metadata.
C1_ReconstructsFromTypedTuple ==
    (/\ result.op = "from_typed_unit_key_tuple"
     /\ unit # NoUnit
     /\ result.arg = unit_key_as_typed_tuple(unit))
    => /\ result.status = "ok"
       /\ result.value.cls = unit.cls
       /\ \A i \in 1..Len(UNIT_KEY_NAMES[unit.cls]) :
            result.value.attrs[UNIT_KEY_NAMES[unit.cls][i]] = result.arg[i + 1]
       /\ result.value.metadata = EmptyDict

\* C2: for each of the six classes, from_package_info on a mapping that
\* holds every key field returns an instance of the class whose unit_key is
\* the mapping restricted to the key names and whose metadata is exactly
\* the remaining entries, a dropped "type" entry aside.
C2_ConstructsEveryVariant ==
    (/\ result.op = "from_package_info"
     /\ KeyNames(result.arg.cls) \subseteq DOMAIN result.arg.package_info)
    => LET cls  == result.arg.cls
           info == result.arg.package_info
           rest == (DOMAIN info \ KeyNames(cls))
                     \ (IF cls = "Errata" THEN {} ELSE {"type"})
       IN  /\ result.status = "ok"
           /\ result.value.cls = cls
           /\ unit_key(result.value) = Restrict(info, KeyNames(cls))
           /\ result.value.metadata = Restrict(info, rest)

\* C3 as stated: however a unit was built, and after any number of
\* process_download_reports calls, no key field name of its class is a key
\* of its metadata.
C3_NoFieldInBoth ==
    /\ unit # NoUnit => KeyNames(unit.cls) \cap DOMAIN unit.metadata = {}
    /\ (result.op = "from_typed_unit_key_tuple" /\ result.status = "ok")
        => KeyNames(result.value.cls) \cap DOMAIN result.value.metadata = {}

\* C3 amended: a unit built by from_package_info, or by a constructor
\* whose caller-supplied metadata holds no key field name of the class,
\* never has a key field name among its metadata keys, also after
\* process_download_reports.
C3_NoFieldInBothUnlessSupplied ==
    /\ (/\ unit # NoUnit
        /\ \/ given.by = "from_package_info"
           \/ KeyNames(unit.cls) \cap DOMAIN CallerMetadata = {})
        => KeyNames(unit.cls) \cap DOMAIN unit.metadata = {}
    /\ (result.op = "from_typed_unit_key_tuple" /\ result.status = "ok")
        => KeyNames(result.value.cls) \cap DOMAIN result.value.metadata = {}

C3_Witness ==
    /\ given.by = "from_package_info"
    /\ unit # NoUnit
    /\ DOMAIN unit.metadata = {"summary"}
    /\ "type" \in DOMAIN given.args

\* C4 as stated: a "type" entry of the mapping given to from_package_info
\* is in neither the unit key nor the metadata of the unit built, for
\* Errata as for every other class.
C4_TypeDroppedForAll ==
    (/\ given.by = "from_package_info"
     /\ unit # NoUnit
     /\ "type" \in DOMAIN given.args)
    => /\ "type" \notin DOMAIN unit_key(unit)
       /\ "type" \notin DOMAIN unit.metadata

\* C4 amended: the "type" entry is in neither the unit key nor the
\* metadata of the unit built for every class other than Errata; an Errata
\* unit keeps it in its metadata, under "type", with the value given.
C4_TypeDroppedExceptErrata ==
    (/\ given.by = "from_package_info"
     /\ unit # NoUnit
     /\ "type" \in DOMAIN given.args)
    => /\ "type" \notin DOMAIN unit_key(unit)
       /\ IF unit.cls = "Errata"
          THEN /\ "type" \in DOMAIN unit.metadata
               /\ unit.metadata["type"] = given.args["type"]
          ELSE "type" \notin DOMAIN unit.metadata

C4_Witness ==
    /\ given.by = "from_package_info"
    /\ unit.cls = "Errata"
    /\ "type" \in DOMAIN given.args
    /\ "type" \in DOMAIN unit.metadata

\* C5: unit_key maps exactly the declared key names to the values given at
\* construction, unit_key_as_typed_tuple is the type tag followed by those
\* values in declared order, and a store into a returned unit_key mapping
\* leaves the unit as constructed.
C5_UnitKeyAndTypedTuple ==
    unit # NoUnit
    => LET names == UNIT_KEY_NAMES[unit.cls]
           k     == unit_key(unit)
           t     == unit_key_as_typed_tuple(unit)
       IN  /\ DOMAIN k = KeyNames(unit.cls)
           /\ \A n \in KeyNames(unit.cls) \cap DOMAIN given.args :
                k[n] = given.args[n]
           /\ Len(t) = 1 + Len(names)
           /\ t[1] = TYPE[unit.cls]
           /\ \A i \in 1..Len(names) :
                /\ t[i + 1] = k[names[i]]
                /\ names[i] \in DOMAIN given.args => t[i + 1] = given.args[names[i]]
           /\ result.op = "unit_key" => snapshot.value = k
           /\ snapshot # NoSnapshot => DOMAIN unit.attrs = KeyNames(unit.cls)

C5_Witness ==
    /\ unit.cls = "RPM"
    /\ result.op = "alter"
    /\ result.arg = "name"
    /\ snapshot.value["name"] # unit_key(unit)["name"]

\* C8: metadata["files"] of a Distribution holds one descriptor per report
\* passed to process_download_reports over all calls, in call order and
\* report order, so a report list passed twice is described twice.
C8_FilesAccumulate ==
    unit.cls = "Distribution"
    => /\ (passed # <<>> \/ result.op = "process_download_reports")
            => "files" \in DOMAIN unit.metadata
       /\ "files" \in DOMAIN unit.metadata
            => LET files == unit.metadata["files"]
               IN  /\ Len(files) = Len(passed)
                   /\ \A i \in 1..Len(passed) :
                        /\ files[i] = FileEntry(unit, passed[i])
                        /\ files[i].relativepath = passed[i].data.relativepath
                        /\ files[i].checksum = passed[i].data.checksum
                        /\ files[i].downloadurl = passed[i].url
                        /\ files[i].savepath = passed[i].destination
                        /\ files[i].size = passed[i].total_bytes

C8_Witness ==
    /\ unit.cls = "Distribution"
    /\ result.op = "process_download_reports"
    /\ Len(result.arg) = 1
    /\ passed = result.arg \o result.arg
    /\ Len(unit.metadata["files"]) = 2
    /\ unit.metadata["files"][1] = unit.metadata["files"][2]

\* C9: a Distribution's id is "ks-<family>-<variant>-<version>-<arch>" of
\* the constructor arguments, its relative_path is that id, and its key
\* fields stay as constructed; process_download_reports touches only
\* metadata["files"].
C9_DistributionIdentity ==
    unit.cls = "Distribution"
    => LET a == given.args
           id == <<"k", "s", "-">> \o a["family"] \o <<"-">> \o a["variant"]
                    \o <<"-">> \o a["version"] \o <<"-">> \o a["arch"]
       IN  /\ unit.attrs["id"] = id
           /\ relative_path(unit) = id
           /\ \A n \in {"family", "variant", "version", "arch"} :
                unit.attrs[n] = a[n]
           /\ DOMAIN unit.attrs = KeyNames("Distribution")
           /\ DOMAIN unit.metadata \subseteq {"files"}

C9_Witness ==
    /\ unit.cls = "Distribution"
    /\ result.op = "process_download_reports"
    /\ Len(passed) >= 2
    /\ relative_path(unit) =
         <<"k", "s", "-", "f", "2", "0", "-", "s", "e", "r", "v", "e", "r", "-",
           "1", ".", "2", "-", "x", "8", "6", "_", "6", "4">>

\* C10: the registry maps exactly the six type tags, each to the class
\* whose TYPE it is, and from_typed_unit_key_tuple on a tuple whose first
\* element is no registered tag raises KeyError and returns no unit.
C10_UnknownTagIsKeyError ==
    /\ DOMAIN TYPE_MAP = {TYPE[c] : c \in Classes}
    /\ Cardinality(DOMAIN TYPE_MAP) = 6
    /\ \A t \in DOMAIN TYPE_MAP : TYPE_MAP[t] \in Classes /\ TYPE[TYPE_MAP[t]] = t
    /\ (/\ result.op = "from_typed_unit_key_tuple"
        /\ result.arg # <<>>
        /\ result.arg[1] \notin {TYPE[c] : c \in Classes})
        => result.status = "KeyError" /\ result.value = NoUnit

C10_Witness ==
    /\ result.op = "from_typed_unit_key_tuple"
    /\ result.arg # <<>>
    /\ result.arg[1] = <<"s", "r", "p", "m">>
    /\ result.status = "KeyError"

\* the encoded (epoch, version, release) of a versioned unit
EncodedEVR(u) ==
    <<encode(u.attrs["epoch"]), encode(u.attrs["version"]),
      encode(u.attrs["release"])>>

\* C6: comparing two versioned units is the lexicographic comparison of
\* their encoded (epoch, version, release), epoch first: 0 when the encoded
\* tuples are equal whatever the other fields, antisymmetric, transitive,
\* and version "1.2" is below "1.10" under an equal epoch.
C6_CmpIsLexicographic ==
    result.op = "cmp"
    => LET a  == pkgs[result.arg[1]]
           b  == pkgs[result.arg[2]]
           ea == EncodedEVR(a)
           eb == EncodedEVR(b)
           c  == result.value
       IN  /\ c = (IF ea[1] # eb[1] THEN CmpStr(ea[1], eb[1])
                   ELSE IF ea[2] # eb[2] THEN CmpStr(ea[2], eb[2])
                   ELSE IF ea[3] # eb[3] THEN CmpStr(ea[3], eb[3])
                   ELSE 0)
           /\ (c = 0) <=> (ea = eb)
           /\ c = NegOf(VersionedPackage__cmp__(b, a))
           /\ \A k \in Slots :
                (c <= 0 /\ VersionedPackage__cmp__(b, pkgs[k]) <= 0)
                    => VersionedPackage__cmp__(a, pkgs[k]) <= 0
           /\ (/\ a.attrs["version"] = <<"1", ".", "2">>
               /\ b.attrs["version"] = <<"1", ".", "1", "0">>
               /\ ea[1] = eb[1])
                => c = -1

C6_Witness ==
    /\ result.op = "cmp"
    /\ pkgs[result.arg[1]].cls = "RPM"
    /\ pkgs[result.arg[2]].cls = "DRPM"
    /\ pkgs[result.arg[1]].attrs["version"] = <<"1", ".", "2">>
    /\ pkgs[result.arg[1]].attrs["release"] = <<"2">>
    /\ pkgs[result.arg[2]].attrs["version"] = <<"1", ".", "1", "0">>
    /\ pkgs[result.arg[1]].attrs["epoch"] = pkgs[result.arg[2]].attrs["epoch"]
    /\ result.value = -1

\* C7: key_string_without_version is name-arch-rpm for an RPM and
\* filename-drpm for a DRPM, so RPM units that differ only in epoch,
\* version, release, checksum or checksumtype yield the same string.
C7_KeyStringWithoutVersion ==
    result.op = "key_string_without_version"
    => LET u == pkgs[result.arg]
           s == result.value
       IN  /\ u.cls = "RPM"
                => s = u.attrs["name"] \o <<"-">> \o u.attrs["arch"]
                          \o <<"-", "r", "p", "m">>
           /\ u.cls = "DRPM"
                => s = u.attrs["filename"] \o <<"-", "d", "r", "p", "m">>
           /\ \A j \in Slots :
                (/\ u.cls = "RPM"
                 /\ pkgs[j].cls = "RPM"
                 /\ pkgs[j].attrs["name"] = u.attrs["name"]
                 /\ pkgs[j].attrs["arch"] = u.attrs["arch"])
                => key_string_without_version(pkgs[j]) = s

C7_Witness ==
    /\ result.op = "key_string_without_version"
    /\ pkgs[result.arg].cls = "RPM"
    /\ \E j \in Slots :
        /\ pkgs[j].cls = "RPM"
        /\ pkgs[j].attrs["name"] = pkgs[result.arg].attrs["name"]
        /\ pkgs[j].attrs["version"] # pkgs[result.arg].attrs["version"]
        /\ key_string_without_version(pkgs[j]) = result.value

=============================================================================
